---- MODULE Spec2Model ----
(***************************************************************************)
(* Model of the two polling scripts of the repository:                     *)
(*   src/monitor.py  - bulk variant: one product feed per cycle            *)
(*   src/scraper.py  - probe variant: one image id per cycle               *)
(* Both follow fetch -> normalise -> save_to_database -> (if new)          *)
(* send_discord_notification -> sleep, forever.                            *)
(***************************************************************************)
EXTENDS Integers, Sequences, FiniteSets, TLC

\* ------------------------------------------------------------------ bounds
\* Number of distinct product ids the shop feed can carry (monitor.py).
NumIds == 2
\* Longest product feed returned by one fetch_products call.
MaxFeed == 2
\* The counter of outbound webhook calls saturates here.
MaxOutbound == 1

\* ------------------------------------------------------- program constants
STARTING_ID == 773220
ENDING_ID == 773230

\* The value DISCORD_WEBHOOK_URL has in the scripts as shipped.
DISCORD_WEBHOOK_URL == "https://discord.com/api/webhooks/YOUR_WEBHOOK_ID/YOUR_WEBHOOK_TOKEN"
\* The literal send_discord_notification compares the constant against.
UNCONFIGURED_LITERAL == "YOUR_DISCORD_WEBHOOK_URL_HERE"
\* A value an operator has edited in.
CONFIGURED_URL == "https://discord.com/api/webhooks/1/token"
WebhookUrls == {DISCORD_WEBHOOK_URL, UNCONFIGURED_LITERAL, CONFIGURED_URL}

\* ------------------------------------------------------------------- data
Workers == {1, 2}
MAIN == 1

ProductIds == 1..NumIds
ImageIds == STARTING_ID..ENDING_ID
\* An entry of the "products" list on which extract_product_data raises
\* (for instance a JSON null, which has no .get).
MALFORMED == 0
RawProducts == ProductIds \cup {MALFORMED}

RECURSIVE SeqsUpTo(_, _)
SeqsUpTo(S, n) ==
    IF n = 0 THEN {<<>>}
    ELSE LET shorter == SeqsUpTo(S, n - 1)
         IN  shorter \cup {Append(s, x) : s \in {t \in shorter : Len(t) = n - 1}, x \in S}
Feeds == SeqsUpTo(RawProducts, MaxFeed)

Min(a, b) == IF a < b THEN a ELSE b

\* The outcome line of a cycle, as main prints it: f"[{status_code}] {text}",
\* with the count that "Found {n} new products" carries.
Line(status, text, n) == [status |-> status, text |-> text, n |-> n]
\* Nothing printed yet.
NoLine == Line(0, "", 0)

\* Longest "sizes" list handed to the notifier.
MaxSizes == 7

\* Variant titles (size labels), as character sequences.
NINE == <<"9">>
TEN_DOT_5 == <<"1", "0", ".", "5">>
SizeLabels == {NINE, TEN_DOT_5}

\* Links: the add-to-cart link f"https://shoepalace.com/cart/{variant_id}:1"
\* of a variant, and the product page f"https://shoepalace.com/products/...".
CartLink(variant_id) == [kind |-> "cart", id |-> variant_id]
ProductLink == [kind |-> "products", id |-> 0]

\* An empty dict.
EmptyDict == [k \in {} |-> ProductLink]
\* Placeholders for "no value yet".
NoProduct == [variants |-> <<>>]
NoProductData == [url |-> ProductLink, sizes |-> <<>>, atc_links |-> EmptyDict]
NoColumns == <<<<>>, <<>>, <<>>>>

\* Values of the Content-Type header, as character sequences; EMPTY is
\* the default headers.get('content-type', '') gives when there is none.
IMAGE == <<"i", "m", "a", "g", "e">>
IMAGE_PNG == IMAGE \o <<"/", "p", "n", "g">>
TEXT_HTML == <<"t", "e", "x", "t", "/", "h", "t", "m", "l">>
EMPTY == <<>>

\* Longest "variants" list of a raw record, and the largest variant id.
MaxVariants == 2
MaxVariantId == 2
\* The variants of the feed: a title and an id. The title EMPTY and the id 0
\* stand for a key that is absent (variant.get(..., "") gives "") or falsy.
TEN_US_5 == <<"1", "0", "_", "5">>
Titles == SizeLabels \cup {TEN_US_5, EMPTY}
Variants == [title : Titles, id : 0..MaxVariantId]
ContentTypes == {IMAGE_PNG, TEXT_HTML, EMPTY}
StatusCodes == {200, 404}
\* Statuses of a feed reply that raise_for_status lets through (below 400).
FeedStatusCodes == {200, 201, 203}

\* Python's "sub in s" for strings.
Contains(s, sub) ==
    \E i \in 1..(Len(s) - Len(sub) + 1) : SubSeq(s, i, i + Len(sub) - 1) = sub

\* The outcome of requests.get(url): it raised, or a response came back.
Reply(raises, status, content_type) ==
    IF raises THEN [raises |-> TRUE, status |-> 0, content_type |-> EMPTY]
    ELSE [raises |-> FALSE, status |-> status, content_type |-> content_type]
\* No request made yet in this cycle.
NoReply == [raises |-> FALSE, status |-> 0, content_type |-> EMPTY]

VARIABLES
    program,            \* which script runs: "monitor", "scraper" (or "callers")
    webhook_url,        \* the configured value of DISCORD_WEBHOOK_URL
    unique_index,       \* create_index("id", unique=True) took effect
    store,              \* the collection: id -> number of documents with that id
    pc,                 \* worker -> position in the code
    item,               \* worker -> product_data["id"] / image_data["id"] in hand
    is_new,             \* worker -> last return value of save_to_database
    fresh,              \* worker -> the id was absent when save_to_database was called
    exc,                \* worker -> exception raised by its latest operation
    products,           \* monitor: the fetched list
    idx,                \* monitor: position of the for loop in products
    new_products_count, \* monitor: per-cycle counter
    current_id,         \* scraper: the probe cursor
    visited,            \* scraper: ids processed in the current sweep, in order
    response,           \* scraper: fetch_image returned a response (not None)
    status_code,        \* status marker returned by the fetch (0 for exceptions)
    notify_calls,       \* id -> calls of send_discord_notification
    outbound,           \* webhook.execute() calls made so far (saturating)
    interrupted,        \* a KeyboardInterrupt has been delivered
    tried,              \* callers: ids save_to_database was called with before
    completed,          \* callers: ids with an earlier call free of store errors
    observed,           \* monitor: watched ids the for loop reached in an earlier cycle
    log,                \* the outcome line main has printed in this cycle
    stored_at_fetch,    \* monitor: ids in the store when this cycle's feed arrived
    reply,              \* scraper: what this cycle's HTTP request came back with
    product,            \* a raw record of the feed, handed to extract_product_data
    product_data,       \* the item extract_product_data returned
    columns             \* the three size columns the notifier built for the item

vars == <<program, webhook_url, unique_index, store, pc, item, is_new, fresh, exc,
          products, idx, new_products_count, current_id, visited, response,
          status_code, notify_calls, outbound, interrupted, tried, completed,
          observed, log, stored_at_fetch, reply, product, product_data, columns>>

loopVars == <<products, idx, new_products_count, current_id, visited, response,
             status_code>>
callVars == <<tried, completed>>
cycleVars == <<observed, log, stored_at_fetch, reply>>
fnVars == <<product, product_data, columns>>
histVars == <<callVars, cycleVars, fnVars>>

\* ------------------------------------------------------------------- Init
InitCommon ==
    /\ is_new = [w \in Workers |-> FALSE]
    /\ fresh = [w \in Workers |-> FALSE]
    /\ exc = [w \in Workers |-> "none"]
    /\ products = <<>>
    /\ idx = 0
    /\ new_products_count = 0
    /\ current_id = STARTING_ID
    /\ visited = <<>>
    /\ response = FALSE
    /\ status_code = 0
    /\ outbound = 0
    /\ interrupted = FALSE
    /\ tried = {}
    /\ completed = {}
    /\ observed = {}
    /\ log = NoLine
    /\ stored_at_fetch = {}
    /\ reply = NoReply
    /\ columns = NoColumns

InitMonitor ==
    /\ program = "monitor"
    /\ webhook_url \in WebhookUrls
    /\ unique_index = FALSE
    /\ InitCommon
    /\ product = NoProduct
    /\ product_data = NoProductData
    /\ store = [i \in ProductIds |-> 0]
    /\ notify_calls = [i \in ProductIds |-> 0]
    /\ item = [w \in Workers |-> 1]
    /\ pc = [w \in Workers |-> IF w = MAIN THEN "start" ELSE "off"]

InitScraper ==
    /\ program = "scraper"
    /\ webhook_url \in {DISCORD_WEBHOOK_URL, UNCONFIGURED_LITERAL}
    /\ unique_index = FALSE
    /\ InitCommon
    /\ product = NoProduct
    /\ product_data = NoProductData
    /\ store = [i \in ImageIds |-> 0]
    /\ notify_calls = [i \in ImageIds |-> 0]
    /\ item = [w \in Workers |-> STARTING_ID]
    /\ pc = [w \in Workers |-> IF w = MAIN THEN "start" ELSE "off"]

Init == InitMonitor \/ InitScraper

\* ------------------------------------------------------ startup (both scripts)
\* connect_to_mongodb and the check main makes of its result. A failure of
\* MongoClient(...) yields (None, None) and main returns; a failure of
\* create_index is swallowed, so the loop may run without the unique index.
Connect ==
    /\ pc[MAIN] = "start"
    /\ \E client_ok \in BOOLEAN, index_ok \in BOOLEAN :
         IF client_ok
         THEN /\ unique_index' = index_ok
              /\ exc' = [exc EXCEPT ![MAIN] = "none"]
              /\ pc' = [pc EXCEPT ![MAIN] = "fetch"]
         ELSE /\ unique_index' = unique_index
              /\ exc' = [exc EXCEPT ![MAIN] = "ConnectError"]
              /\ pc' = [pc EXCEPT ![MAIN] = "exited"]
    /\ UNCHANGED <<program, webhook_url, store, item, is_new, fresh, loopVars,
                   notify_calls, outbound, interrupted, histVars>>

\* ---------------------------------------------------------- save_to_database
\* FindOne with the lookup result ignored: every id is taken to be absent.
FindOne_NoLookup(w) ==
    /\ pc[w] = "find"
    /\ \/ /\ exc' = [exc EXCEPT ![w] = "StoreError"]
          /\ is_new' = [is_new EXCEPT ![w] = FALSE]
          /\ pc' = [pc EXCEPT ![w] = "ret_save"]
       \/ /\ exc' = [exc EXCEPT ![w] = "none"]
          /\ is_new' = is_new
          /\ pc' = [pc EXCEPT ![w] = "insert"]
    /\ UNCHANGED <<program, webhook_url, unique_index, store, item, fresh, loopVars,
                   notify_calls, outbound, interrupted, histVars>>

\* FindOne outside any try block: a failing find_one leaves save_to_database
\* as an exception and reaches the "except Exception" clause of the caller.
FindOne_Unguarded(w) ==
    /\ pc[w] = "find"
    /\ \/ /\ exc' = [exc EXCEPT ![w] = "StoreError"]
          /\ is_new' = is_new
          /\ pc' = [pc EXCEPT ![w] = "handler"]
       \/ /\ store[item[w]] > 0
          /\ exc' = [exc EXCEPT ![w] = "none"]
          /\ is_new' = [is_new EXCEPT ![w] = FALSE]
          /\ pc' = [pc EXCEPT ![w] = "ret_save"]
       \/ /\ store[item[w]] = 0
          /\ exc' = [exc EXCEPT ![w] = "none"]
          /\ is_new' = is_new
          /\ pc' = [pc EXCEPT ![w] = "insert"]
    /\ UNCHANGED <<program, webhook_url, unique_index, store, item, fresh, loopVars,
                   notify_calls, outbound, interrupted, histVars>>

\* collection.find_one({"id": ...}) and the branch on its result.
FindOne(w) ==
    /\ pc[w] = "find"
    /\ \/ \* find_one raises: caught, "Database error", return False
          /\ exc' = [exc EXCEPT ![w] = "StoreError"]
          /\ is_new' = [is_new EXCEPT ![w] = FALSE]
          /\ pc' = [pc EXCEPT ![w] = "ret_save"]
       \/ \* a document with this id exists: return False
          /\ store[item[w]] > 0
          /\ exc' = [exc EXCEPT ![w] = "none"]
          /\ is_new' = [is_new EXCEPT ![w] = FALSE]
          /\ pc' = [pc EXCEPT ![w] = "ret_save"]
       \/ \* existing_product is None: go on to insert_one
          /\ store[item[w]] = 0
          /\ exc' = [exc EXCEPT ![w] = "none"]
          /\ is_new' = is_new
          /\ pc' = [pc EXCEPT ![w] = "insert"]
    /\ UNCHANGED <<program, webhook_url, unique_index, store, item, fresh, loopVars,
                   notify_calls, outbound, interrupted, histVars>>

\* InsertOne on a collection whose unique index is never consulted.
InsertOne_NoIndex(w) ==
    /\ pc[w] = "insert"
    /\ \/ /\ exc' = [exc EXCEPT ![w] = "StoreError"]
          /\ is_new' = [is_new EXCEPT ![w] = FALSE]
          /\ store' = store
       \/ /\ exc' = [exc EXCEPT ![w] = "none"]
          /\ is_new' = [is_new EXCEPT ![w] = TRUE]
          /\ store' = [store EXCEPT ![item[w]] = @ + 1]
    /\ pc' = [pc EXCEPT ![w] = "ret_save"]
    /\ UNCHANGED <<program, webhook_url, unique_index, item, fresh, loopVars,
                   notify_calls, outbound, interrupted, histVars>>

\* InsertOne whose except clause returns True instead of False.
InsertOne_ErrorAsNew(w) ==
    /\ pc[w] = "insert"
    /\ \/ /\ exc' = [exc EXCEPT ![w] = "StoreError"]
          /\ is_new' = [is_new EXCEPT ![w] = TRUE]
          /\ store' = store
       \/ /\ unique_index /\ store[item[w]] > 0
          /\ exc' = [exc EXCEPT ![w] = "DuplicateKeyError"]
          /\ is_new' = [is_new EXCEPT ![w] = TRUE]
          /\ store' = store
       \/ /\ ~(unique_index /\ store[item[w]] > 0)
          /\ exc' = [exc EXCEPT ![w] = "none"]
          /\ is_new' = [is_new EXCEPT ![w] = TRUE]
          /\ store' = [store EXCEPT ![item[w]] = @ + 1]
    /\ pc' = [pc EXCEPT ![w] = "ret_save"]
    /\ UNCHANGED <<program, webhook_url, unique_index, item, fresh, loopVars,
                   notify_calls, outbound, interrupted, histVars>>

\* collection.insert_one(...) and the return that follows it.
InsertOne(w) ==
    /\ pc[w] = "insert"
    /\ \/ \* insert_one raises (store unreachable): caught, return False
          /\ exc' = [exc EXCEPT ![w] = "StoreError"]
          /\ is_new' = [is_new EXCEPT ![w] = FALSE]
          /\ store' = store
       \/ \* the unique index rejects a second document with this id
          /\ unique_index /\ store[item[w]] > 0
          /\ exc' = [exc EXCEPT ![w] = "DuplicateKeyError"]
          /\ is_new' = [is_new EXCEPT ![w] = FALSE]
          /\ store' = store
       \/ \* the document is written: return True
          /\ ~(unique_index /\ store[item[w]] > 0)
          /\ exc' = [exc EXCEPT ![w] = "none"]
          /\ is_new' = [is_new EXCEPT ![w] = TRUE]
          /\ store' = [store EXCEPT ![item[w]] = @ + 1]
    /\ pc' = [pc EXCEPT ![w] = "ret_save"]
    /\ UNCHANGED <<program, webhook_url, unique_index, item, fresh, loopVars,
                   notify_calls, outbound, interrupted, histVars>>

\* ------------------------------------------------- send_discord_notification
\* SendDiscordNotification without its try block: a failure reaches the
\* "except Exception" clause of the caller.
SendDiscordNotification_Propagates(w) ==
    /\ pc[w] = "notify"
    /\ notify_calls' = [notify_calls EXCEPT ![item[w]] = @ + 1]
    /\ IF webhook_url = UNCONFIGURED_LITERAL
       THEN /\ outbound' = outbound
            /\ exc' = [exc EXCEPT ![w] = "none"]
            /\ pc' = [pc EXCEPT ![w] = "ret_notify"]
       ELSE \E outcome \in {"sent", "format_error", "delivery_error"} :
              /\ outbound' = IF outcome = "format_error" THEN outbound
                             ELSE Min(outbound + 1, MaxOutbound)
              /\ exc' = [exc EXCEPT ![w] =
                           IF outcome = "sent" THEN "none" ELSE "NotificationError"]
              /\ pc' = [pc EXCEPT ![w] =
                           IF outcome = "sent" THEN "ret_notify" ELSE "handler"]
    /\ UNCHANGED <<program, webhook_url, unique_index, store, item, is_new, fresh,
                   loopVars, interrupted, histVars>>

\* The guard on the placeholder, then the try block: building the embed may
\* raise before webhook.execute() is reached, and execute() itself may raise;
\* both are caught and printed, and the function returns.
SendDiscordNotification(w) ==
    /\ pc[w] = "notify"
    /\ notify_calls' = [notify_calls EXCEPT ![item[w]] = @ + 1]
    /\ IF webhook_url = UNCONFIGURED_LITERAL
       THEN /\ outbound' = outbound
            /\ exc' = [exc EXCEPT ![w] = "none"]
       ELSE \E outcome \in {"sent", "format_error", "delivery_error"} :
              /\ outbound' = IF outcome = "format_error" THEN outbound
                             ELSE Min(outbound + 1, MaxOutbound)
              /\ exc' = [exc EXCEPT ![w] =
                           IF outcome = "sent" THEN "none" ELSE "NotificationError"]
    /\ pc' = [pc EXCEPT ![w] = "ret_notify"]
    /\ UNCHANGED <<program, webhook_url, unique_index, store, item, is_new, fresh,
                   loopVars, interrupted, histVars>>

\* size.replace(".", "_")
Sanitize(size) == [i \in DOMAIN size |-> IF size[i] = "." THEN "_" ELSE size[i]]

\* SizeColumns with both column sizes rounded down (total_sizes // 3).
SizeColumns_FloorSplit(pd) ==
    LET sizes == pd.sizes
        atc_links == pd.atc_links
        total_sizes == Len(sizes)
        col1_size == total_sizes \div 3
        col2_size == total_sizes \div 3
        Entry(i) ==
            LET size == sizes[i + 1]
                sanitized_size == Sanitize(size)
            IN  [size |-> size,
                 link |-> IF sanitized_size \in DOMAIN atc_links
                          THEN atc_links[sanitized_size] ELSE pd.url]
        Column(from, to) == [j \in 1..(to - from) |-> Entry(from + j - 1)]
    IN  IF total_sizes > 0
        THEN <<Column(0, Min(col1_size, total_sizes)),
               Column(col1_size, Min(col1_size + col2_size, total_sizes)),
               Column(col1_size + col2_size, total_sizes)>>
        ELSE NoColumns

\* "Format sizes into 3 columns" of send_discord_notification: col1_sizes,
\* col2_sizes, col3_sizes. Entry(i) is what the loops append for index i
\* (an index of Python, from 0): the label and the link of
\* f"[{size} US]({link})"; Column(from, to) is the loop over range(from, to).
SizeColumns(pd) ==
    LET sizes == pd.sizes
        atc_links == pd.atc_links
        total_sizes == Len(sizes)
        col1_size == (total_sizes + 2) \div 3
        col2_size == (total_sizes + 1) \div 3
        Entry(i) ==
            LET size == sizes[i + 1]
                sanitized_size == Sanitize(size)
            IN  [size |-> size,
                 link |-> IF sanitized_size \in DOMAIN atc_links
                          THEN atc_links[sanitized_size] ELSE pd.url]
        Column(from, to) == [j \in 1..(to - from) |-> Entry(from + j - 1)]
    IN  IF total_sizes > 0
        THEN <<Column(0, Min(col1_size, total_sizes)),
               Column(col1_size, Min(col1_size + col2_size, total_sizes)),
               Column(col1_size + col2_size, total_sizes)>>
        ELSE NoColumns

\* dict[key] = value
Put(dict, key, value) ==
    [k \in DOMAIN dict \cup {key} |-> IF k = key THEN value ELSE dict[k]]

\* ExtractVariants with the link stored under the title as it is.
RECURSIVE ExtractVariants_RawKey(_, _)
ExtractVariants_RawKey(variants, k) ==
    IF k = 0 THEN [sizes |-> <<>>, atc_links |-> EmptyDict]
    ELSE LET before == ExtractVariants_RawKey(variants, k - 1)
             variant == variants[k]
             size == variant.title
             variant_id == variant.id
         IN  IF size # EMPTY /\ variant_id # 0
             THEN [sizes |-> Append(before.sizes, size),
                   atc_links |-> Put(before.atc_links, size, CartLink(variant_id))]
             ELSE before

\* "sizes" and "atc_links" of extract_product_data after the first k passes
\* of "for variant in variants".
RECURSIVE ExtractVariants(_, _)
ExtractVariants(variants, k) ==
    IF k = 0 THEN [sizes |-> <<>>, atc_links |-> EmptyDict]
    ELSE LET before == ExtractVariants(variants, k - 1)
             variant == variants[k]
             size == variant.title
             variant_id == variant.id
         IN  IF size # EMPTY /\ variant_id # 0
             THEN LET sanitized_size == Sanitize(size)
                  IN  [sizes |-> Append(before.sizes, size),
                       atc_links |-> Put(before.atc_links, sanitized_size,
                                         CartLink(variant_id))]
             ELSE before

\* extract_product_data with the links stored under the titles as they are.
extract_product_data_RawKey(p) ==
    LET done == ExtractVariants_RawKey(p.variants, Len(p.variants))
    IN  [url |-> ProductLink, sizes |-> done.sizes, atc_links |-> done.atc_links]

\* The fields of the dict extract_product_data returns that the size columns
\* are built from.
extract_product_data(p) ==
    LET done == ExtractVariants(p.variants, Len(p.variants))
    IN  [url |-> ProductLink, sizes |-> done.sizes, atc_links |-> done.atc_links]

\* product_data = extract_product_data(product)
Normalize ==
    /\ program = "extract" /\ pc[MAIN] = "raw"
    /\ product_data' = extract_product_data(product)
    /\ pc' = [pc EXCEPT ![MAIN] = "item"]
    /\ UNCHANGED <<program, webhook_url, unique_index, store, item, is_new, fresh, exc,
                   loopVars, notify_calls, outbound, interrupted, callVars, cycleVars,
                   product, columns>>

\* extract_product_data is handed a raw record with any list of variants.
InitExtract ==
    /\ program = "extract"
    /\ webhook_url = CONFIGURED_URL
    /\ unique_index = FALSE
    /\ InitCommon
    /\ store = [i \in ProductIds |-> 0]
    /\ notify_calls = [i \in ProductIds |-> 0]
    /\ item = [w \in Workers |-> 1]
    /\ pc = [w \in Workers |-> IF w = MAIN THEN "raw" ELSE "off"]
    /\ \E variants \in SeqsUpTo(Variants, MaxVariants) :
         product = [variants |-> variants]
    /\ product_data = NoProductData

\* The notifier formats the sizes of the item in hand.
FormatSizes ==
    /\ program \in {"notify", "extract"} /\ pc[MAIN] = "item"
    /\ columns' = SizeColumns(product_data)
    /\ pc' = [pc EXCEPT ![MAIN] = "formatted"]
    /\ UNCHANGED <<program, webhook_url, unique_index, store, item, is_new, fresh, exc,
                   loopVars, notify_calls, outbound, interrupted, callVars, cycleVars,
                   product, product_data>>

\* send_discord_notification is handed an item with any list of sizes.
InitNotify ==
    /\ program = "notify"
    /\ webhook_url = CONFIGURED_URL
    /\ unique_index = FALSE
    /\ InitCommon
    /\ store = [i \in ProductIds |-> 0]
    /\ notify_calls = [i \in ProductIds |-> 0]
    /\ item = [w \in Workers |-> 1]
    /\ pc = [w \in Workers |-> IF w = MAIN THEN "item" ELSE "off"]
    /\ product = NoProduct
    /\ \E sizes \in SeqsUpTo(SizeLabels, MaxSizes) :
         product_data = [url |-> ProductLink, sizes |-> sizes, atc_links |-> EmptyDict]

\* ------------------------------------------------------------ end of a cycle
\* The locals of a finished iteration are dead: each is assigned again before
\* it is read. They are put back to their initial values when the loop goes
\* to sleep, so that states differing only in dead values coincide.
FirstId == IF program = "scraper" THEN STARTING_ID ELSE 1
DropLocals ==
    /\ item' = [item EXCEPT ![MAIN] = FirstId]
    /\ is_new' = [is_new EXCEPT ![MAIN] = FALSE]
    /\ fresh' = [fresh EXCEPT ![MAIN] = FALSE]
    /\ response' = FALSE
    /\ status_code' = 0

\* ------------------------------------------------------- monitor.py main loop
\* FetchProducts with "new_products_count = 0" moved out of the loop: the
\* counter runs on from one cycle to the next.
FetchProducts_NoReset ==
    /\ program = "monitor" /\ pc[MAIN] = "fetch"
    /\ \E raises \in BOOLEAN, feed \in Feeds, status \in FeedStatusCodes :
         LET got == IF raises THEN <<>> ELSE feed
         IN  /\ products' = got
             /\ exc' = [exc EXCEPT ![MAIN] = IF raises THEN "FetchError" ELSE "none"]
             /\ IF got = <<>>
                THEN /\ pc' = [pc EXCEPT ![MAIN] = "sleep"]
                     /\ DropLocals
                     /\ UNCHANGED <<idx, new_products_count, stored_at_fetch>>
                ELSE /\ pc' = [pc EXCEPT ![MAIN] = "extract"]
                     /\ idx' = 1
                     /\ new_products_count' = new_products_count
                     /\ status_code' = status
                     /\ stored_at_fetch' = {i \in DOMAIN store : store[i] > 0}
                     /\ UNCHANGED <<item, is_new, fresh, response>>
    /\ UNCHANGED <<program, webhook_url, unique_index, store, current_id, visited,
                   notify_calls, outbound, interrupted, callVars, fnVars, observed, log, reply>>

\* fetch_products and the "if not products" branch of main (sleep, continue);
\* on the other branch the per-cycle counter is reset and the for loop starts.
FetchProducts ==
    /\ program = "monitor" /\ pc[MAIN] = "fetch"
    /\ \E raises \in BOOLEAN, feed \in Feeds, status \in FeedStatusCodes :
         LET got == IF raises THEN <<>> ELSE feed
         IN  /\ products' = got
             /\ exc' = [exc EXCEPT ![MAIN] = IF raises THEN "FetchError" ELSE "none"]
             /\ IF got = <<>>
                THEN /\ pc' = [pc EXCEPT ![MAIN] = "sleep"]
                     /\ DropLocals
                     /\ UNCHANGED <<idx, new_products_count, stored_at_fetch>>
                ELSE /\ pc' = [pc EXCEPT ![MAIN] = "extract"]
                     /\ idx' = 1
                     /\ new_products_count' = 0
                     /\ status_code' = status
                     /\ stored_at_fetch' = {i \in DOMAIN store : store[i] > 0}
                     /\ UNCHANGED <<item, is_new, fresh, response>>
    /\ UNCHANGED <<program, webhook_url, unique_index, store, current_id, visited,
                   notify_calls, outbound, interrupted, callVars, fnVars, observed, log, reply>>

\* The ids whose earlier observations are kept on record; the ids are
\* treated alike by the loop, so one id is followed.
Watched == {1}

\* The ids of the first k elements of the fetched list: the products the for
\* loop of this cycle has gone through once it is past position k.
Reached(k) == {products[j] : j \in 1..k}

\* The for loop of main moves to its next element, or ends.
ForNext ==
    IF idx < Len(products)
    THEN /\ idx' = idx + 1
         /\ pc' = [pc EXCEPT ![MAIN] = "extract"]
    ELSE /\ idx' = idx
         /\ pc' = [pc EXCEPT ![MAIN] = "status"]

\* ExtractProductData in a loop that keeps the ids it has gone through in
\* memory and passes over them in later cycles.
ExtractProductData_SkipsSeen ==
    /\ program = "monitor" /\ pc[MAIN] = "extract"
    /\ IF products[idx] = MALFORMED
       THEN /\ exc' = [exc EXCEPT ![MAIN] = "NormalizeError"]
            /\ pc' = [pc EXCEPT ![MAIN] = "handler"]
            /\ observed' = observed \cup (Reached(idx - 1) \cap Watched)
            /\ UNCHANGED <<item, fresh, idx>>
       ELSE IF products[idx] \in observed
       THEN /\ ForNext
            /\ UNCHANGED <<item, fresh, exc, observed>>
       ELSE /\ exc' = [exc EXCEPT ![MAIN] = "none"]
            /\ item' = [item EXCEPT ![MAIN] = products[idx]]
            /\ fresh' = [fresh EXCEPT ![MAIN] = (store[products[idx]] = 0)]
            /\ pc' = [pc EXCEPT ![MAIN] = "find"]
            /\ UNCHANGED <<observed, idx>>
    /\ UNCHANGED <<program, webhook_url, unique_index, store, is_new,
                   products, new_products_count, current_id, visited, response,
                   status_code, notify_calls, outbound, interrupted, callVars, fnVars,
                   log, stored_at_fetch, reply>>

\* ExtractProductData in a loop without the "except Exception" clause: the
\* exception ends the process.
ExtractProductData_Uncaught ==
    /\ program = "monitor" /\ pc[MAIN] = "extract"
    /\ IF products[idx] = MALFORMED
       THEN /\ exc' = [exc EXCEPT ![MAIN] = "NormalizeError"]
            /\ pc' = [pc EXCEPT ![MAIN] = "killed"]
            /\ UNCHANGED <<item, fresh>>
       ELSE /\ exc' = [exc EXCEPT ![MAIN] = "none"]
            /\ item' = [item EXCEPT ![MAIN] = products[idx]]
            /\ fresh' = [fresh EXCEPT ![MAIN] = (store[products[idx]] = 0)]
            /\ pc' = [pc EXCEPT ![MAIN] = "find"]
    /\ UNCHANGED <<program, webhook_url, unique_index, store, is_new, loopVars,
                   notify_calls, outbound, interrupted, histVars>>

\* extract_product_data(product) for the current element of the for loop,
\* and the call of save_to_database that follows. An exception raised by the
\* extraction reaches the "except Exception" clause of main.
ExtractProductData ==
    /\ program = "monitor" /\ pc[MAIN] = "extract"
    /\ IF products[idx] = MALFORMED
       THEN /\ exc' = [exc EXCEPT ![MAIN] = "NormalizeError"]
            /\ pc' = [pc EXCEPT ![MAIN] = "handler"]
            /\ observed' = observed \cup (Reached(idx - 1) \cap Watched)
            /\ UNCHANGED <<item, fresh>>
       ELSE /\ exc' = [exc EXCEPT ![MAIN] = "none"]
            /\ item' = [item EXCEPT ![MAIN] = products[idx]]
            /\ fresh' = [fresh EXCEPT ![MAIN] = (store[products[idx]] = 0)]
            /\ pc' = [pc EXCEPT ![MAIN] = "find"]
            /\ observed' = observed
    /\ UNCHANGED <<program, webhook_url, unique_index, store, is_new, loopVars,
                   notify_calls, outbound, interrupted, callVars, fnVars, log, stored_at_fetch, reply>>

\* MonitorAfterSave without the test of is_new: every candidate is counted
\* and notified.
MonitorAfterSave_AlwaysNotifies ==
    /\ program = "monitor" /\ pc[MAIN] = "ret_save"
    /\ new_products_count' = new_products_count + 1
    /\ pc' = [pc EXCEPT ![MAIN] = "notify"]
    /\ idx' = idx
    /\ UNCHANGED <<program, webhook_url, unique_index, store, item, is_new, fresh, exc,
                   products, current_id, visited, response, status_code,
                   notify_calls, outbound, interrupted, histVars>>

\* "if is_new:" after save_to_database returned.
MonitorAfterSave ==
    /\ program = "monitor" /\ pc[MAIN] = "ret_save"
    /\ IF is_new[MAIN]
       THEN /\ new_products_count' = new_products_count + 1
            /\ pc' = [pc EXCEPT ![MAIN] = "notify"]
            /\ idx' = idx
       ELSE /\ new_products_count' = new_products_count
            /\ ForNext
    /\ UNCHANGED <<program, webhook_url, unique_index, store, item, is_new, fresh, exc,
                   products, current_id, visited, response, status_code,
                   notify_calls, outbound, interrupted, histVars>>

\* send_discord_notification returned to the for loop.
MonitorAfterNotify ==
    /\ program = "monitor" /\ pc[MAIN] = "ret_notify"
    /\ ForNext
    /\ UNCHANGED <<program, webhook_url, unique_index, store, item, is_new, fresh, exc,
                   products, new_products_count, current_id, visited, response, status_code,
                   notify_calls, outbound, interrupted, histVars>>

\* The status line main prints after the for loop.
StatusLine(status, count) ==
    IF count > 0 THEN Line(status, "Found new products", count)
    ELSE Line(status, "No new products found", 0)

\* The status line printed after the for loop; the loop goes to sleep.
MonitorStatus ==
    /\ program = "monitor" /\ pc[MAIN] = "status"
    /\ pc' = [pc EXCEPT ![MAIN] = "sleep"]
    /\ log' = StatusLine(status_code, new_products_count)
    /\ DropLocals
    /\ observed' = observed \cup (Reached(Len(products)) \cap Watched)
    /\ UNCHANGED <<program, webhook_url, unique_index, store, exc,
                   products, idx, new_products_count, current_id, visited,
                   notify_calls, outbound, interrupted, callVars, fnVars, stored_at_fetch, reply>>

\* ------------------------------------------------------- scraper.py main loop
\* fetch_image that looks at the status only.
fetch_image_StatusOnly(raises, status, content_type) ==
    IF raises THEN [response |-> FALSE, status_code |-> 0]
    ELSE IF status = 200
         THEN [response |-> TRUE, status_code |-> status]
         ELSE [response |-> FALSE, status_code |-> status]

\* What fetch_image returns for a reply with this status and content type,
\* or for a request that raised.
fetch_image(raises, status, content_type) ==
    IF raises THEN [response |-> FALSE, status_code |-> 0]
    ELSE IF status = 200 /\ Contains(content_type, IMAGE)
         THEN [response |-> TRUE, status_code |-> status]
         ELSE [response |-> FALSE, status_code |-> status]

\* NextId with the reset one id early (>= in place of >).
NextId_OffByOne(id) == IF id + 1 >= ENDING_ID THEN STARTING_ID ELSE id + 1

\* The cursor after one more probe: current_id += 1, reset past ENDING_ID.
NextId(id) == IF id + 1 > ENDING_ID THEN STARTING_ID ELSE id + 1

\* The end of the try body: the outcome line has been printed; "Move to next
\* ID", the reset at the end of the range, and the loop goes to sleep.
Advance ==
    /\ visited' = IF current_id = STARTING_ID THEN <<current_id>>
                  ELSE Append(visited, current_id)
    /\ current_id' = NextId(current_id)
    /\ pc' = [pc EXCEPT ![MAIN] = "sleep"]
    /\ DropLocals

\* fetch_image(current_id) and the "if response:" branch of main.
FetchImage ==
    /\ program = "scraper" /\ pc[MAIN] = "fetch"
    /\ \E raises \in BOOLEAN, status \in StatusCodes, content_type \in ContentTypes :
         LET r == fetch_image(raises, status, content_type)
         IN  /\ reply' = Reply(raises, status, content_type)
             /\ exc' = [exc EXCEPT ![MAIN] = IF raises THEN "FetchError" ELSE "none"]
             /\ IF r.response
                THEN /\ response' = TRUE
                     /\ status_code' = r.status_code
                     /\ pc' = [pc EXCEPT ![MAIN] = "extract"]
                     /\ UNCHANGED <<item, is_new, fresh, current_id, visited, log>>
                ELSE /\ log' = Line(r.status_code, "Failed to fetch image", 0)
                     /\ Advance
    /\ UNCHANGED <<program, webhook_url, unique_index, store,
                   products, idx, new_products_count,
                   notify_calls, outbound, interrupted, callVars, fnVars, observed,
                   stored_at_fetch>>

\* extract_image_data(current_id, response) and the call of save_to_database
\* that follows. An exception raised here reaches the "except Exception"
\* clause of main.
ExtractImageData ==
    /\ program = "scraper" /\ pc[MAIN] = "extract"
    /\ \E raises \in BOOLEAN :
         IF raises
         THEN /\ exc' = [exc EXCEPT ![MAIN] = "NormalizeError"]
              /\ pc' = [pc EXCEPT ![MAIN] = "handler"]
              /\ UNCHANGED <<item, fresh>>
         ELSE /\ exc' = [exc EXCEPT ![MAIN] = "none"]
              /\ item' = [item EXCEPT ![MAIN] = current_id]
              /\ fresh' = [fresh EXCEPT ![MAIN] = (store[current_id] = 0)]
              /\ pc' = [pc EXCEPT ![MAIN] = "find"]
    /\ UNCHANGED <<program, webhook_url, unique_index, store, is_new, loopVars,
                   notify_calls, outbound, interrupted, histVars>>

\* "if is_new:" after save_to_database returned.
ScraperAfterSave ==
    /\ program = "scraper" /\ pc[MAIN] = "ret_save"
    /\ IF is_new[MAIN]
       THEN /\ pc' = [pc EXCEPT ![MAIN] = "notify"]
            /\ UNCHANGED <<item, is_new, fresh, response, status_code, current_id,
                           visited, log>>
       ELSE /\ log' = Line(status_code, "Image already exists", 0)
            /\ Advance
    /\ UNCHANGED <<program, webhook_url, unique_index, store, exc,
                   products, idx, new_products_count,
                   notify_calls, outbound, interrupted, callVars, fnVars, observed,
                   stored_at_fetch, reply>>

\* send_discord_notification returned to main.
ScraperAfterNotify ==
    /\ program = "scraper" /\ pc[MAIN] = "ret_notify"
    /\ log' = Line(status_code, "Found new image", 0)
    /\ Advance
    /\ UNCHANGED <<program, webhook_url, unique_index, store, exc,
                   products, idx, new_products_count,
                   notify_calls, outbound, interrupted, callVars, fnVars, observed,
                   stored_at_fetch, reply>>

\* ------------------------------------------------- loop boundary (both scripts)
\* A new pass of "while True" begins: what is recorded about the cycle that
\* ended is cleared.
NewCycle ==
    /\ log' = NoLine
    /\ stored_at_fetch' = {}
    /\ reply' = NoReply

\* time.sleep(DELAY_IN_SECONDS) at the end of the try body (and, in
\* monitor.py, on the empty-feed branch); the loop then starts a new cycle.
Sleep ==
    /\ pc[MAIN] = "sleep"
    /\ pc' = [pc EXCEPT ![MAIN] = "fetch"]
    /\ exc' = [exc EXCEPT ![MAIN] = "none"]
    /\ NewCycle
    /\ UNCHANGED <<program, webhook_url, unique_index, store, item, is_new, fresh,
                   loopVars, notify_calls, outbound, interrupted, callVars, fnVars, observed>>

\* HandlerSleep that leaves the loop after printing the error.
HandlerSleep_Exits ==
    /\ pc[MAIN] = "handler"
    /\ pc' = [pc EXCEPT ![MAIN] = "exited"]
    /\ UNCHANGED <<program, webhook_url, unique_index, store, item, is_new, fresh, exc,
                   loopVars, notify_calls, outbound, interrupted, histVars>>

\* HandlerSleep that moves the cursor on, past the id whose cycle failed.
HandlerSleep_SkipsId ==
    /\ pc[MAIN] = "handler"
    /\ pc' = [pc EXCEPT ![MAIN] = "fetch"]
    /\ exc' = [exc EXCEPT ![MAIN] = "none"]
    /\ current_id' = NextId(current_id)
    /\ DropLocals
    /\ NewCycle
    /\ UNCHANGED <<program, webhook_url, unique_index, store,
                   products, idx, new_products_count, visited,
                   notify_calls, outbound, interrupted, callVars, fnVars, observed>>

\* "except Exception as e": print the error, sleep, start a new cycle.
HandlerSleep ==
    /\ pc[MAIN] = "handler"
    /\ pc' = [pc EXCEPT ![MAIN] = "fetch"]
    /\ exc' = [exc EXCEPT ![MAIN] = "none"]
    /\ DropLocals
    /\ NewCycle
    /\ UNCHANGED <<program, webhook_url, unique_index, store,
                   products, idx, new_products_count, current_id, visited,
                   notify_calls, outbound, interrupted, callVars, fnVars, observed>>

\* Positions inside the try body of the while loop.
TryBody == {"fetch", "extract", "find", "insert", "ret_save", "notify",
            "ret_notify", "status", "sleep"}
\* Positions at which the process has ended.
Ended == {"exited", "stopped", "killed", "aborted"}

\* Where a KeyboardInterrupt raised at this position takes the process. The
\* position "fetch" runs from the return of time.sleep over the head of the
\* loop ("while True", outside the try) to the call of the fetch inside it.
InterruptOutcomes(at) ==
    IF at = "fetch" THEN {"stopped", "killed"}
    ELSE IF at \in TryBody THEN {"stopped"}
    ELSE IF at = "handler" THEN {"killed"}
    ELSE {"aborted"}

\* Interrupt as it would be if the "except Exception" clause of
\* save_to_database caught KeyboardInterrupt: inside save_to_database the
\* call returns False and the loop goes on.
Interrupt_CaughtByCallee ==
    /\ pc[MAIN] \in TryBody \cup {"start", "handler"}
    /\ interrupted' = TRUE
    /\ exc' = [exc EXCEPT ![MAIN] = "KeyboardInterrupt"]
    /\ \E at \in InterruptOutcomes(pc[MAIN]) :
         pc' = [pc EXCEPT ![MAIN] = IF pc[MAIN] \in {"find", "insert"} THEN "ret_save"
                                    ELSE at]
    /\ \E index_created \in BOOLEAN :
         unique_index' = IF pc[MAIN] = "start" THEN index_created ELSE unique_index
    /\ is_new' = [is_new EXCEPT ![MAIN] = FALSE]
    /\ UNCHANGED <<program, webhook_url, store, item, fresh,
                   loopVars, notify_calls, outbound, histVars>>

\* Ctrl+C: Python raises KeyboardInterrupt in the main thread wherever it is.
\* Inside the try body "except KeyboardInterrupt" prints the stop message and
\* breaks (the "except Exception" clauses of the callees do not catch it);
\* outside it nothing catches it and it ends the process: "killed" in the
\* sleep of the "except Exception" clause and at the head of the loop,
\* "aborted" before the loop has started. At "start" main is anywhere from
\* the call of connect_to_mongodb to the print that follows it, so the
\* unique index may have been created by then.
Interrupt ==
    /\ pc[MAIN] \in TryBody \cup {"start", "handler"}
    /\ interrupted' = TRUE
    /\ exc' = [exc EXCEPT ![MAIN] = "KeyboardInterrupt"]
    /\ \E at \in InterruptOutcomes(pc[MAIN]) : pc' = [pc EXCEPT ![MAIN] = at]
    /\ \E index_created \in BOOLEAN :
         unique_index' = IF pc[MAIN] = "start" THEN index_created ELSE unique_index
    /\ UNCHANGED <<program, webhook_url, store, item, is_new, fresh,
                   loopVars, notify_calls, outbound, histVars>>

\* Ctrl+C in scraper.py after requests.get has been answered with a failing
\* reply (an exception, a status other than 200, a content type without
\* "image") and before the outcome line of line 147 is printed: in
\* fetch_image after the reply, or in main before or after the assignment
\* of its result. The loop stops with the request answered, nothing
\* printed and the cursor where it was; status_code of main has the status
\* fetch_image returns when the assignment has been made.
InterruptFetch ==
    /\ program = "scraper" /\ pc[MAIN] = "fetch"
    /\ \E raises \in BOOLEAN, status \in StatusCodes, content_type \in ContentTypes,
          assigned \in BOOLEAN :
         LET r == fetch_image(raises, status, content_type)
         IN  /\ ~r.response
             /\ reply' = Reply(raises, status, content_type)
             /\ status_code' = IF assigned THEN r.status_code ELSE status_code
    /\ interrupted' = TRUE
    /\ exc' = [exc EXCEPT ![MAIN] = "KeyboardInterrupt"]
    /\ pc' = [pc EXCEPT ![MAIN] = "stopped"]
    /\ UNCHANGED <<program, webhook_url, unique_index, store, item, is_new, fresh,
                   products, idx, new_products_count, current_id, visited, response,
                   notify_calls, outbound, callVars, fnVars, observed, log,
                   stored_at_fetch>>

\* Ctrl+C in the last statements of the try body of scraper.py: after the
\* outcome line has been printed and before "current_id += 1", or after
\* the increment past ENDING_ID and before the reset to STARTING_ID. The
\* loop stops with the line printed and the cursor where it was, or one
\* past the end of the range.
InterruptAdvance ==
    /\ program = "scraper"
    /\ \/ /\ pc[MAIN] = "fetch"
          /\ \E raises \in BOOLEAN, status \in StatusCodes, content_type \in ContentTypes :
               LET r == fetch_image(raises, status, content_type)
               IN  /\ ~r.response
                   /\ reply' = Reply(raises, status, content_type)
                   /\ status_code' = r.status_code
                   /\ log' = Line(r.status_code, "Failed to fetch image", 0)
       \/ /\ pc[MAIN] = "ret_save" /\ ~is_new[MAIN]
          /\ log' = Line(status_code, "Image already exists", 0)
          /\ UNCHANGED <<reply, status_code>>
       \/ /\ pc[MAIN] = "ret_notify"
          /\ log' = Line(status_code, "Found new image", 0)
          /\ UNCHANGED <<reply, status_code>>
    /\ \/ UNCHANGED <<current_id, visited>>
       \/ /\ current_id = ENDING_ID
          /\ current_id' = current_id + 1
          /\ visited' = Append(visited, current_id)
    /\ interrupted' = TRUE
    /\ exc' = [exc EXCEPT ![MAIN] = "KeyboardInterrupt"]
    /\ pc' = [pc EXCEPT ![MAIN] = "stopped"]
    /\ UNCHANGED <<program, webhook_url, unique_index, store, item, is_new, fresh,
                   products, idx, new_products_count, response,
                   notify_calls, outbound, callVars, fnVars, observed, stored_at_fetch>>

\* ------------------------------------- callers of save_to_database (harness)
\* One or two pollers that call save_to_database(collection, {"id": id}) on
\* one collection, each doing what both main loops do with the result:
\* "if is_new: send_discord_notification(...)".
InitCallers ==
    /\ program = "callers"
    /\ webhook_url \in {DISCORD_WEBHOOK_URL, UNCONFIGURED_LITERAL}
    /\ unique_index \in BOOLEAN
    /\ InitCommon
    /\ product = NoProduct
    /\ product_data = NoProductData
    /\ store = [i \in ProductIds |-> 0]
    /\ notify_calls = [i \in ProductIds |-> 0]
    /\ item = [w \in Workers |-> 1]
    /\ pc \in {[w \in Workers |-> "idle"], [w \in Workers |-> IF w = MAIN THEN "idle" ELSE "off"]}

\* A poller calls save_to_database with some id.
CallSave(w) ==
    /\ program = "callers" /\ pc[w] = "idle"
    /\ \E id \in ProductIds :
         /\ item' = [item EXCEPT ![w] = id]
         /\ fresh' = [fresh EXCEPT ![w] = (store[id] = 0)]
    /\ exc' = [exc EXCEPT ![w] = "none"]
    /\ pc' = [pc EXCEPT ![w] = "find"]
    /\ UNCHANGED <<program, webhook_url, unique_index, store, is_new, loopVars,
                   notify_calls, outbound, interrupted, histVars>>

\* "if is_new:" after save_to_database returned; the call is entered in the
\* record of calls made so far.
CallerAfterSave(w) ==
    /\ program = "callers" /\ pc[w] = "ret_save"
    /\ tried' = tried \cup {item[w]}
    /\ completed' = IF exc[w] = "StoreError" THEN completed ELSE completed \cup {item[w]}
    /\ pc' = [pc EXCEPT ![w] = IF is_new[w] THEN "notify" ELSE "idle"]
    /\ UNCHANGED <<program, webhook_url, unique_index, store, item, is_new, fresh, exc,
                   loopVars, notify_calls, outbound, interrupted, cycleVars, fnVars>>

\* send_discord_notification returned to the poller.
CallerAfterNotify(w) ==
    /\ program = "callers" /\ pc[w] = "ret_notify"
    /\ pc' = [pc EXCEPT ![w] = "idle"]
    /\ UNCHANGED <<program, webhook_url, unique_index, store, item, is_new, fresh, exc,
                   loopVars, notify_calls, outbound, interrupted, histVars>>

\* ----------------------------------------------------------- specifications
SaveAndNotify == FindOne(MAIN) \/ InsertOne(MAIN) \/ SendDiscordNotification(MAIN)

MonitorStep ==
    \/ Connect \/ FetchProducts \/ ExtractProductData \/ SaveAndNotify
    \/ MonitorAfterSave \/ MonitorAfterNotify \/ MonitorStatus
    \/ Sleep \/ HandlerSleep

ScraperStep ==
    \/ Connect \/ FetchImage \/ ExtractImageData \/ SaveAndNotify
    \/ ScraperAfterSave \/ ScraperAfterNotify
    \/ Sleep \/ HandlerSleep

NextMonitor == MonitorStep \/ Interrupt
NextScraper == ScraperStep \/ Interrupt \/ InterruptFetch \/ InterruptAdvance
NextCallers ==
    \E w \in Workers :
        \/ CallSave(w) \/ FindOne(w) \/ InsertOne(w) \/ CallerAfterSave(w)
        \/ SendDiscordNotification(w) \/ CallerAfterNotify(w)

\* Either script, from its start.
Next ==
    \/ Connect \/ SaveAndNotify \/ Sleep \/ HandlerSleep \/ Interrupt
    \/ InterruptFetch \/ InterruptAdvance
    \/ FetchProducts \/ ExtractProductData
    \/ MonitorAfterSave \/ MonitorAfterNotify \/ MonitorStatus
    \/ FetchImage \/ ExtractImageData \/ ScraperAfterSave \/ ScraperAfterNotify
Spec == Init /\ [][Next]_vars

SpecMonitor == InitMonitor /\ [][NextMonitor]_vars
SpecScraper == InitScraper /\ [][NextScraper]_vars
SpecCallers == InitCallers /\ [][NextCallers]_vars

\* A raw record is normalised, and the notifier formats the item.
NextExtract == Normalize \/ FormatSizes
SpecExtract == InitExtract /\ [][NextExtract]_vars

\* The size columns of the notifier, for every list of sizes.
NextNotify == FormatSizes
SpecNotify == InitNotify /\ [][NextNotify]_vars

\* The main loop is sequential code that always takes its next step; Ctrl+C
\* is up to the operator.
FairSpecMonitor == SpecMonitor /\ WF_vars(MonitorStep)

\* ==================================================================== claims

\* C1 (Spec): for a single worker, send_discord_notification is called at
\* most once per id: an id that was in the store when it was observed never
\* passes "if is_new", and the notifier is only ever entered for an id that
\* was absent when observed and has no notification yet (so a notification
\* that failed is not tried again).
C1_NotifiedAtMostOnce ==
    /\ \A i \in DOMAIN notify_calls : notify_calls[i] <= 1
    /\ (pc[MAIN] = "ret_save" /\ ~fresh[MAIN]) => ~is_new[MAIN]
    /\ pc[MAIN] = "notify" => (fresh[MAIN] /\ notify_calls[item[MAIN]] = 0)

\* An id whose one notification failed before any webhook call is observed
\* again, found in the store, and not notified again.
C1_Witness ==
    /\ pc[MAIN] = "ret_save" /\ ~fresh[MAIN] /\ ~is_new[MAIN]
    /\ notify_calls[item[MAIN]] = 1
    /\ webhook_url = DISCORD_WEBHOOK_URL /\ outbound = 0

\* Both pollers called save_to_database with the same id while it was absent.
SameFreshId ==
    /\ \A w \in Workers : pc[w] # "off"
    /\ item[1] = item[2]
    /\ fresh[1] /\ fresh[2]
Returned(w) == pc[w] \in {"ret_save", "notify", "ret_notify", "idle"}
NotifyDone(w) == pc[w] \in {"ret_notify", "idle"}
NoStoreError == \A w \in Workers : exc[w] # "StoreError"

\* C2 (SpecCallers): with the unique index in force, two pollers that call
\* save_to_database with the same previously-unseen id get, under every
\* interleaving of their find_one and insert_one steps (no operation
\* failing for another reason), True for exactly one of them and False for
\* the other, and the id is notified exactly once.
C2_ExactlyOneInserted ==
    unique_index =>
        /\ (SameFreshId /\ NoStoreError /\ Returned(1) /\ Returned(2))
              => (is_new[1] # is_new[2])
        /\ (SameFreshId /\ NoStoreError /\ NotifyDone(1) /\ NotifyDone(2))
              => notify_calls[item[1]] = 1
        /\ \A i \in ProductIds : notify_calls[i] <= 1 /\ store[i] <= 1

\* Both pollers saw the id absent in find_one; the index rejected the second
\* insert_one.
C2_Witness ==
    /\ unique_index /\ SameFreshId /\ Returned(1) /\ Returned(2)
    /\ is_new[1] /\ ~is_new[2] /\ exc[2] = "DuplicateKeyError"

\* C3 (Spec): with DISCORD_WEBHOOK_URL left at the value the scripts ship
\* with, no webhook call is ever made.
C3_ShippedPlaceholderSilent ==
    webhook_url = DISCORD_WEBHOOK_URL => outbound = 0

CycleFault ==
    exc[MAIN] \in {"FetchError", "NormalizeError", "StoreError", "NotificationError"}
AtSleep == pc[MAIN] \in {"sleep", "handler"}

\* C4 (FairSpecMonitor): a cycle in which the fetch, the normalisation, a
\* store operation or the notification fails still reaches a sleep step
\* (that of the try body or that of the "except Exception" clause), and
\* from every sleep step the next cycle starts at the fetch, unless the
\* operator interrupts.
C4_FaultIsolation ==
    /\ CycleFault ~> (AtSleep \/ interrupted)
    /\ AtSleep ~> (pc[MAIN] = "fetch" \/ interrupted)

\* The fetch raised and the loop is at its sleep step.
C4_Witness ==
    pc[MAIN] = "sleep" /\ exc[MAIN] = "FetchError"

\* C5 as stated (SpecCallers, one caller): the first call for an id returns
\* True and every later call for it returns False.
C5_FirstCallInserts ==
    (pc[2] = "off" /\ pc[1] = "ret_save") => (is_new[1] <=> item[1] \notin tried)

\* C5 amended (SpecCallers, one caller): a call hit by a store error returns
\* False; the first call for an id that is not hit by one returns True and
\* every later call for it returns False; the store holds one record for an
\* id that has been inserted and none for any other.
C5_FirstCleanCallInserts ==
    pc[2] = "off" =>
        /\ pc[1] = "ret_save" =>
              (is_new[1] <=> (exc[1] # "StoreError" /\ item[1] \notin completed))
        /\ \A i \in ProductIds :
              store[i] = IF i \in completed \/ (pc[1] \in {"ret_save"} /\ is_new[1] /\ item[1] = i)
                         THEN 1 ELSE 0

\* A later call for an id already inserted returns False; one record is held.
C5_Witness ==
    /\ pc[2] = "off" /\ pc[1] = "ret_save"
    /\ item[1] \in completed /\ ~is_new[1] /\ exc[1] = "none"
    /\ store[item[1]] = 1

\* C6 as stated (SpecMonitor): after a store operation failed for an item,
\* the item is not in the store and is treated as not saved.
C6_FailedItemNotInStore ==
    (pc[MAIN] = "ret_save" /\ exc[MAIN] = "StoreError")
        => (store[item[MAIN]] = 0 /\ ~is_new[MAIN])

\* C6 amended (SpecMonitor): a find_one or insert_one that raises leaves the
\* store as it was and makes save_to_database return False; the loop then
\* sends no notification for that candidate and goes on to the next
\* candidate of the cycle (or to the status line after the last one).
C6_FailedSaveLeavesStore ==
    /\ [][(pc[MAIN] \in {"find", "insert"} /\ exc'[MAIN] = "StoreError")
             => (store' = store /\ pc'[MAIN] = "ret_save" /\ ~is_new'[MAIN])]_vars
    /\ [][(pc[MAIN] = "ret_save" /\ exc[MAIN] = "StoreError" /\ ~interrupted')
             => /\ notify_calls' = notify_calls
                /\ store' = store
                /\ IF idx < Len(products)
                   THEN pc'[MAIN] = "extract" /\ idx' = idx + 1
                   ELSE pc'[MAIN] = "status"]_vars

\* After a store error on the first candidate the loop is at the second.
C6_Witness ==
    /\ program = "monitor" /\ pc[MAIN] = "extract" /\ idx = 2
    /\ exc[MAIN] = "StoreError"

\* C7 (Spec): whatever fails inside send_discord_notification, control is
\* back in the loop, which goes on with the next candidate of the cycle or to
\* the end of the cycle, never to the "except Exception" clause and never out
\* of the loop; the item has had one notification call.
C7_NotifierNeverRaises ==
    exc[MAIN] = "NotificationError" =>
        /\ pc[MAIN] \in {"ret_notify", "extract", "status", "sleep"}
        /\ pc[MAIN] = "ret_notify" => notify_calls[item[MAIN]] = 1
        /\ \A i \in DOMAIN notify_calls : notify_calls[i] <= 1

\* After a failed notification the bulk loop is at its next candidate.
C7_Witness ==
    /\ program = "monitor" /\ pc[MAIN] = "extract" /\ idx = 2
    /\ exc[MAIN] = "NotificationError" /\ notify_calls[products[1]] = 1

\* The ids from STARTING_ID on, n of them, in increasing order.
RangeSeq(n) == [k \in 1..n |-> STARTING_ID + k - 1]

\* C8 (SpecScraper): the cursor starts at STARTING_ID and each processed
\* probe moves it on by one, from ENDING_ID back to STARTING_ID: the ids
\* processed in a sweep are STARTING_ID, STARTING_ID + 1, ... in this order,
\* each once, and a full sweep is the 11 ids 773220..773230; this holds of
\* every sweep, and a loop that has not been ended always has a next step.
\* (A loop stopped by an interrupt between the increment past ENDING_ID and
\* the reset has completed its sweep and holds ENDING_ID + 1.)
C8_SweepVisitsRangeInOrder ==
    /\ \/ current_id \in ImageIds
       \/ current_id = ENDING_ID + 1 /\ pc[MAIN] = "stopped"
    /\ pc[MAIN] \notin Ended => ENABLED ScraperStep
    /\ current_id > STARTING_ID => visited = RangeSeq(current_id - STARTING_ID)
    /\ current_id = STARTING_ID =>
          \/ visited = <<>>
          \/ /\ visited = RangeSeq(ENDING_ID - STARTING_ID + 1)
             /\ Len(visited) = 11
             /\ visited[1] = 773220 /\ visited[11] = 773230

\* A second sweep is under way: the last id of the range was stored in an
\* earlier sweep and the cursor has moved on from STARTING_ID again.
C8_Witness ==
    /\ program = "scraper" /\ store[ENDING_ID] = 1
    /\ current_id = STARTING_ID + 1 /\ visited = <<STARTING_ID>>

\* C9 (SpecMonitor): the process ends only by a failed startup, straight
\* from the start and before anything else has happened, or by an operator
\* interrupt; no step is taken after the end.
C9_EndsOnlyOnCancelOrStartup ==
    /\ [][pc'[MAIN] \in Ended =>
             \/ /\ pc[MAIN] = "start" /\ pc'[MAIN] = "exited"
                /\ exc'[MAIN] = "ConnectError"
                /\ UNCHANGED <<store, notify_calls, outbound, products, status_code>>
             \/ interrupted' /\ exc'[MAIN] = "KeyboardInterrupt"]_vars
    /\ [][pc[MAIN] \notin Ended]_vars

\* The connection failed at startup and the process has ended.
C9_Witness ==
    pc[MAIN] = "exited" /\ exc[MAIN] = "ConnectError" /\ ~interrupted

\* C10 as stated (Spec): an interrupt does not cut a cycle short, so the
\* loop never stops between the store insert of an item and the notification
\* of that item: when the loop has been cancelled every stored item has had
\* its notification.
C10_CancelOnlyAtCycleTop ==
    interrupted => \A i \in DOMAIN store : store[i] > 0 => notify_calls[i] > 0

\* C10 amended (Spec): an interrupt takes effect at whatever point of the
\* cycle it arrives and the cycle is cut short there, also between the
\* store insert of an item and its notification; it ends the loop through
\* the "stopped" exit when it arrives inside the try body, and ends the
\* process without it when it arrives in the sleep of the "except Exception"
\* clause, at the head of the loop between two cycles, or before the loop
\* has started. Nothing is stored or notified by the interrupted step; the
\* cursor of scraper.py stays where it is, or is one past ENDING_ID when
\* the interrupt falls between its increment and its reset.
C10_CancelAnywhere ==
    [][(interrupted' /\ ~interrupted) =>
          /\ pc[MAIN] \in TryBody \ {"fetch"} => pc'[MAIN] = "stopped"
          /\ pc[MAIN] = "fetch" => pc'[MAIN] \in {"stopped", "killed"}
          /\ pc[MAIN] = "handler" => pc'[MAIN] = "killed"
          /\ pc[MAIN] = "start" => pc'[MAIN] = "aborted"
          /\ pc[MAIN] \in TryBody \cup {"handler", "start"}
          /\ \/ current_id' = current_id
             \/ /\ program = "scraper" /\ pc'[MAIN] = "stopped"
                /\ current_id = ENDING_ID /\ current_id' = ENDING_ID + 1
          /\ UNCHANGED <<store, notify_calls, outbound, products, idx>>]_vars

\* The loop was stopped after the insert of an item and before its
\* notification.
C10_Witness ==
    /\ pc[MAIN] = "stopped" /\ interrupted
    /\ \E i \in DOMAIN store : store[i] = 1 /\ notify_calls[i] = 0

\* C11 as stated (SpecMonitor): an id is in the store at most once, and an
\* insert happens only in the cycle in which the for loop first reached the
\* id, never for an id the loop had already reached in an earlier cycle.
C11_PersistedWhenFirstObserved ==
    /\ \A i \in DOMAIN store : store[i] <= 1
    /\ (pc[MAIN] = "ret_save" /\ is_new[MAIN] /\ item[MAIN] \in Watched)
          => item[MAIN] \notin observed

\* C11 amended (SpecMonitor): the store is append-only and holds each id at
\* most once; a document is written only by insert_one of a
\* save_to_database call that found the id absent; and the call that writes
\* it is the first one for the id in which no store operation fails, so
\* after every call free of store errors the id is in the store.
C11_PersistedOnceAppendOnly ==
    /\ [][\A i \in DOMAIN store :
            /\ store'[i] >= store[i]
            /\ store'[i] <= 1
            /\ store'[i] > store[i] =>
                  (pc[MAIN] = "insert" /\ item[MAIN] = i /\ store[i] = 0)]_vars
    /\ [](pc[MAIN] = "ret_save" =>
            /\ is_new[MAIN] <=> (fresh[MAIN] /\ exc[MAIN] = "none")
            /\ exc[MAIN] = "none" => store[item[MAIN]] = 1)

\* An id the for loop reached in an earlier cycle, where the store failed,
\* is inserted now.
C11_Witness ==
    /\ program = "monitor" /\ pc[MAIN] = "ret_save" /\ is_new[MAIN]
    /\ item[MAIN] \in observed /\ store[item[MAIN]] = 1

\* The ids added to the store since this cycle's feed arrived.
InsertedThisCycle == {i \in DOMAIN store : store[i] > 0} \ stored_at_fetch

\* C12 as stated (SpecMonitor): every cycle of monitor.py whose fetch did not
\* fail, a cycle with an empty feed included, has printed a status line
\* when it sleeps.
C12_EveryCycleLogsStatus ==
    (program = "monitor" /\ pc[MAIN] = "sleep" /\ exc[MAIN] # "FetchError")
        => log.text \in {"Found new products", "No new products found"}

\* C12 amended (SpecMonitor): a cycle with at least one candidate prints
\* nothing before the for loop has gone through all candidates, then prints
\* one status line and sleeps; the line carries the number of ids inserted
\* in this cycle when that is positive and "No new products found"
\* otherwise, and the status code the feed was answered with, whichever
\* success code that was. A cycle with an empty feed sleeps without a
\* status line.
C12_StatusLineAfterCandidates ==
    /\ [](program = "monitor" =>
            /\ pc[MAIN] \in (TryBody \cup {"handler"}) \ {"sleep"} => log = NoLine
            /\ pc[MAIN] = "status" =>
                  /\ idx = Len(products)
                  /\ new_products_count = Cardinality(InsertedThisCycle)
                  /\ status_code \in FeedStatusCodes
            /\ (pc[MAIN] = "sleep" /\ products # <<>>) =>
                  /\ idx = Len(products)
                  /\ log = StatusLine(log.status, Cardinality(InsertedThisCycle))
            /\ (pc[MAIN] = "sleep" /\ products = <<>>) => log = NoLine)
    /\ [][(program = "monitor" /\ pc[MAIN] = "status" /\ pc'[MAIN] = "sleep")
             => log'.status = status_code]_vars

\* A cycle with two candidates, one of them new, whose feed was answered
\* with 203, sleeps after "[203] Found 1 new products"; the store held the
\* other id when the feed arrived.
C12_Witness ==
    /\ program = "monitor" /\ pc[MAIN] = "sleep"
    /\ Len(products) = 2 /\ stored_at_fetch # {}
    /\ log = Line(203, "Found new products", 1)

\* The reply is one that counts as a successful probe.
Success(r) == ~r.raises /\ r.status = 200 /\ Contains(r.content_type, IMAGE)

\* C13 (SpecScraper): the normaliser, the store and the notifier are reached
\* only in a cycle whose reply has status 200 and an image content type; a
\* cycle with any other reply (exception, other status, other or missing
\* content type) goes from the fetch straight to its sleep with the store,
\* the notification counts and the webhook calls unchanged, the line
\* "[status] Failed to fetch image" printed and the cursor advanced; an
\* interrupt may stop the loop before the line is printed or before the
\* cursor is advanced, and nothing else is printed in its place.
C13_FailedProbeSkipsStore ==
    /\ [](program = "scraper" =>
            /\ pc[MAIN] \in {"extract", "find", "insert", "ret_save", "notify",
                             "ret_notify"} => Success(reply)
            /\ (pc[MAIN] = "sleep" /\ ~Success(reply)) =>
                  log = Line(reply.status, "Failed to fetch image", 0))
    /\ [][(program = "scraper" /\ pc[MAIN] = "fetch" /\ reply' # reply
            /\ ~Success(reply')) =>
             /\ store' = store /\ notify_calls' = notify_calls /\ outbound' = outbound
             /\ log' \in {log, Line(reply'.status, "Failed to fetch image", 0)}
             /\ ~interrupted' => /\ log' = Line(reply'.status, "Failed to fetch image", 0)
                                 /\ current_id' = NextId(current_id)
                                 /\ pc'[MAIN] = "sleep"
             /\ interrupted' => pc'[MAIN] = "stopped"]_vars

\* A reply with status 200 and a text content type for the first id: the
\* cycle sleeps with the failure logged, the cursor on the second id and
\* nothing stored.
C13_Witness ==
    /\ program = "scraper" /\ pc[MAIN] = "sleep"
    /\ reply = Reply(FALSE, 200, TEXT_HTML)
    /\ log = Line(200, "Failed to fetch image", 0)
    /\ current_id = STARTING_ID + 1 /\ store[STARTING_ID] = 0

\* a / b rounded up.
Ceil(a, b) == (a + b - 1) \div b
\* The size labels of a column, in order.
Labels(col) == [j \in 1..Len(col) |-> col[j].size]

\* C14 (SpecNotify): for a list of n sizes the three columns have
\* ceil(n/3), ceil((n - first)/2) and the remaining number of entries; the
\* numbers sum to n, never increase from one column to the next, differ by
\* at most one, and the labels of the columns read one after the other are
\* the input list.
C14_ThreeBalancedColumns ==
    pc[MAIN] = "formatted" =>
        LET n == Len(product_data.sizes)
            g1 == Len(columns[1])
            g2 == Len(columns[2])
            g3 == Len(columns[3])
        IN  /\ g1 = Ceil(n, 3)
            /\ g2 = Ceil(n - g1, 2)
            /\ g3 = n - g1 - g2
            /\ g1 + g2 + g3 = n
            /\ g1 >= g2 /\ g2 >= g3 /\ g1 - g3 <= 1
            /\ Labels(columns[1]) \o Labels(columns[2]) \o Labels(columns[3])
                 = product_data.sizes

\* Seven sizes, not all the same, are split 3, 2, 2.
C14_Witness ==
    /\ program = "notify" /\ pc[MAIN] = "formatted"
    /\ Len(product_data.sizes) = 7
    /\ product_data.sizes[1] # product_data.sizes[4]
    /\ Len(columns[1]) = 3 /\ Len(columns[2]) = 2 /\ Len(columns[3]) = 2

\* The variant is one extract_product_data keeps ("if size and variant_id").
Kept(variant) == variant.title # EMPTY /\ variant.id # 0

\* C15 (SpecExtract): in the item extract_product_data returns for a raw
\* record, "sizes" holds the titles of exactly the variants that have a
\* title and an id, no key of "atc_links" contains ".", and for every kept
\* variant "atc_links" holds, under the variant's sanitized title, the cart
\* link built from that variant's own id.
C15_OwnLinkPerKeptVariant ==
    (program = "extract" /\ pc[MAIN] = "item") =>
        LET variants == product.variants
            atc_links == product_data.atc_links
        IN  /\ product_data.sizes =
                   [j \in 1..Len(SelectSeq(variants, Kept)) |->
                       SelectSeq(variants, Kept)[j].title]
            /\ \A key \in DOMAIN atc_links : \A i \in DOMAIN key : key[i] # "."
            /\ \A k \in DOMAIN variants :
                   Kept(variants[k]) =>
                       /\ Sanitize(variants[k].title) \in DOMAIN atc_links
                       /\ atc_links[Sanitize(variants[k].title)]
                            = CartLink(variants[k].id)

\* C16 (Spec): every id send_discord_notification has been called for is in
\* the store, and the notifier is entered only with is_new true after an
\* insert that raised nothing, for an id that is in the store by then.
C16_NotifiedSubsetOfStored ==
    /\ \A i \in DOMAIN notify_calls : notify_calls[i] > 0 => store[i] > 0
    /\ pc[MAIN] = "notify" =>
          /\ is_new[MAIN] /\ exc[MAIN] = "none"
          /\ store[item[MAIN]] > 0

\* One id has been inserted and notified; save_to_database has just failed
\* for another id, which is neither stored nor notified.
C16_Witness ==
    /\ pc[MAIN] = "ret_save" /\ exc[MAIN] = "StoreError" /\ ~is_new[MAIN]
    /\ store[item[MAIN]] = 0 /\ notify_calls[item[MAIN]] = 0
    /\ \E i \in DOMAIN store : store[i] = 1 /\ notify_calls[i] = 1

\* The feed in hand carries id i and no malformed record, and the latest
\* operation of the loop has not failed in the fetch, the normaliser or the
\* store (nor has the loop been ended).
Healthy(i) ==
    /\ i \in Reached(Len(products))
    /\ MALFORMED \notin Reached(Len(products))
    /\ exc[MAIN] \notin {"ConnectError", "FetchError", "NormalizeError",
                          "StoreError", "KeyboardInterrupt"}

\* C17 (FairSpecMonitor): for every id, if from some point on every feed
\* carries the id and fetch, normaliser and store no longer fail, then the
\* id is eventually in the store with a notification attempted for it,
\* whatever failed in the cycles before.
C17_EventuallyStoredAndNotified ==
    \A i \in ProductIds :
        <>[]Healthy(i) => <>(store[i] > 0 /\ notify_calls[i] > 0)

\* The notifier has returned for an id that the loop had gone through in an
\* earlier cycle, where the store failed.
C17_Witness ==
    /\ program = "monitor" /\ pc[MAIN] = "ret_notify"
    /\ item[MAIN] \in observed
    /\ store[item[MAIN]] = 1 /\ notify_calls[item[MAIN]] = 1

\* C18 as stated (SpecScraper): the cursor of scraper.py is an id of the
\* range in every reachable state.
C18_CursorAlwaysInRange ==
    program = "scraper" => (STARTING_ID <= current_id /\ current_id <= ENDING_ID)

\* C18 amended (SpecScraper): the cursor of scraper.py is an id of the range
\* wherever the loop probes, logs, sleeps or handles an exception; it is
\* ENDING_ID + 1 only in a loop that an interrupt has stopped between the
\* increment and the reset, after the whole range has been visited. A step
\* into the "except Exception" clause and the step out of it leave the
\* cursor and the record of the sweep as they are, and the loop goes from
\* the clause back to the fetch, so the next probe is for the same id.
C18_HandlerKeepsCursor ==
    /\ [](program = "scraper" =>
            /\ STARTING_ID <= current_id /\ current_id <= ENDING_ID + 1
            /\ current_id = ENDING_ID + 1 =>
                  /\ pc[MAIN] = "stopped" /\ interrupted
                  /\ Len(visited) = ENDING_ID - STARTING_ID + 1)
    /\ [][(program = "scraper" /\ (pc[MAIN] = "handler" \/ pc'[MAIN] = "handler")) =>
             /\ current_id' = current_id /\ visited' = visited
             /\ pc[MAIN] = "handler" => pc'[MAIN] \in {"fetch", "killed"}]_vars

\* The cycle for the second id of the range is in the "except Exception"
\* clause, with the cursor still on that id.
C18_Witness ==
    /\ program = "scraper" /\ pc[MAIN] = "handler"
    /\ exc[MAIN] = "NormalizeError"
    /\ current_id = STARTING_ID + 1 /\ visited = <<STARTING_ID>>

\* C19 (SpecExtract): in every item extract_product_data returns, each
\* label of "sizes" has an entry in "atc_links" under its sanitized key; and
\* in the columns the notifier builds for the item every entry carries a
\* cart link, never the link of the product page it falls back to.
C19_NoFallbackLink ==
    program = "extract" =>
        /\ pc[MAIN] \in {"item", "formatted"} =>
              \A i \in DOMAIN product_data.sizes :
                  Sanitize(product_data.sizes[i]) \in DOMAIN product_data.atc_links
        /\ pc[MAIN] = "formatted" =>
              \A c \in DOMAIN columns : \A j \in DOMAIN columns[c] :
                  /\ columns[c][j].link # product_data.url
                  /\ columns[c][j].link.kind = "cart"

\* A record with the variant "10.5" and a variant without id: the item has
\* the one size, and its column entry carries the cart link of the variant.
C19_Witness ==
    /\ program = "extract" /\ pc[MAIN] = "formatted"
    /\ product.variants = <<[title |-> TEN_DOT_5, id |-> 2], [title |-> NINE, id |-> 0]>>
    /\ product_data.sizes = <<TEN_DOT_5>>
    /\ columns[1] = <<[size |-> TEN_DOT_5, link |-> CartLink(2)]>>

====
